---- MODULE Spec2Model ----
(***************************************************************************)
(* Model of hw.py: the in-memory address book (Field/Phone/Birthday,       *)
(* Record, AddressBook), its upcoming-birthdays query and the command      *)
(* handlers wrapped by input_error.                                        *)
(*                                                                         *)
(* Texts are modelled by what the code looks at.  A phone text is the      *)
(* sequence of its characters.  A birthday text is the separator it uses,  *)
(* the three numbers it spells and whether month and day are written with  *)
(* two digits; a date is the triple <<y, m, d>>.                           *)
(* A raised exception is a value of the field exc ("None" when the call    *)
(* returned).                                                              *)
(***************************************************************************)
EXTENDS Integers, Sequences, FiniteSets, TLC

VARIABLES book, last

vars == <<book, last>>

(***************************************************************************)
(* Bounds of the model.                                                    *)
(***************************************************************************)
\* Most phones the records of the book hold together in the explored states.
MaxPhones == 2

(***************************************************************************)
(* Program constants.                                                      *)
(***************************************************************************)
PhoneLen == 10

WindowDays == 7

Saturday == 5

Sunday == 6

(***************************************************************************)
(* datetime.date as the code uses it: construction, replace(year=...),     *)
(* comparison, weekday(), + timedelta(days=n), difference in days.         *)
(***************************************************************************)
IsLeap(y) == (y % 4 = 0) /\ ((y % 100 # 0) \/ (y % 400 = 0))

DaysInMonth(y, m) ==
  IF m \in {1, 3, 5, 7, 8, 10, 12} THEN 31
  ELSE IF m \in {4, 6, 9, 11} THEN 30
  ELSE IF IsLeap(y) THEN 29 ELSE 28

ValidDate(y, m, d) ==
  /\ y \in 1..9999
  /\ m \in 1..12
  /\ d \in 1..DaysInMonth(y, m)

\* Days of year y before the first day of month m.
DaysBeforeMonth(y, m) ==
  <<0, 31, 59, 90, 120, 151, 181, 212, 243, 273, 304, 334>>[m]
    + (IF m > 2 /\ IsLeap(y) THEN 1 ELSE 0)

DaysBeforeYear(y) ==
  (y - 1) * 365 + ((y - 1) \div 4) - ((y - 1) \div 100) + ((y - 1) \div 400)

\* date.toordinal(): 0001-01-01 is day 1.
ToOrdinal(dt) == DaysBeforeYear(dt[1]) + DaysBeforeMonth(dt[1], dt[2]) + dt[3]

\* date.weekday(): Monday is 0, Sunday is 6.
Weekday(dt) == (ToOrdinal(dt) + 6) % 7

NextDay(dt) ==
  IF dt[3] < DaysInMonth(dt[1], dt[2]) THEN <<dt[1], dt[2], dt[3] + 1>>
  ELSE IF dt[2] < 12 THEN <<dt[1], dt[2] + 1, 1>>
  ELSE <<dt[1] + 1, 1, 1>>

\* dt + timedelta(days=n), n >= 0.
RECURSIVE PlusDays(_, _)
PlusDays(dt, n) == IF n = 0 THEN dt ELSE PlusDays(NextDay(dt), n - 1)

\* a < b on dates.
DateLess(a, b) ==
  \/ a[1] < b[1]
  \/ a[1] = b[1] /\ a[2] < b[2]
  \/ a[1] = b[1] /\ a[2] = b[2] /\ a[3] < b[3]

\* The value standing for "the date constructor raised ValueError".
Raised == <<0>>

\* dt.replace(year=y): the same month and day in year y; ValueError when
\* that is no calendar date (February 29 in a year that is not a leap year).
ReplaceYear(dt, y) ==
  IF ValidDate(y, dt[2], dt[3]) THEN <<y, dt[2], dt[3]>> ELSE Raised

(***************************************************************************)
(* Fields.                                                                 *)
(***************************************************************************)
\* The characters str.isdigit() accepts among those the model draws from:
\* the ASCII digits, and SUPERSCRIPT TWO (U+00B2), which isdigit() accepts
\* although it is no decimal digit (str.isdecimal() rejects it).
AsciiDigits == {"0", "1", "2", "3", "4", "5", "6", "7", "8", "9"}

SuperscriptTwo == "SUPERSCRIPT TWO"

IsDigitChar(c) == c \in AsciiDigits \cup {SuperscriptTwo}

\* str.isdigit(): non-empty and every character a digit.
IsDigit(s) == Len(s) > 0 /\ \A i \in 1..Len(s) : IsDigitChar(s[i])

\* Phone.validate: TRUE when it returns, FALSE when it raises ValueError.
PhoneValidate(value) == ~(Len(value) # PhoneLen \/ ~IsDigit(value))

\* The value of a record without a birthday (self.birthday = None).
NoBirthday == <<>>

\* datetime.strptime(value, "%Y.%m.%d"): the date, or Raised.  %m and %d
\* accept one digit as well as two, so value.padded is not looked at.
Strptime(value) ==
  IF value.sep = "." /\ ValidDate(value.y, value.m, value.d)
  THEN <<value.y, value.m, value.d>>
  ELSE Raised

\* Birthday.__str__: strftime("%Y.%m.%d").
Strftime(dt) ==
  [sep |-> ".", y |-> dt[1], m |-> dt[2], d |-> dt[3], padded |-> TRUE]

(***************************************************************************)
(* Record.                                                                 *)
(***************************************************************************)
NewRecord(name) == [name |-> name, phones |-> <<>>, birthday |-> NoBirthday]

\* Record.add_phone: validate, then append.
RecordAddPhone(rec, phone) ==
  IF PhoneValidate(phone)
  THEN [exc |-> "None", rec |-> [rec EXCEPT !.phones = Append(@, phone)]]
  ELSE [exc |-> "ValueError", rec |-> rec]

\* Record.remove_phone: keep the phones different from phone, in order.
RecordRemovePhone(rec, phone) ==
  [rec EXCEPT !.phones = SelectSeq(@, LAMBDA p : p # phone)]

\* A variant of edit_phone that validates new before it removes old.
RecordEditPhoneAtomic(rec, old, new) ==
  IF PhoneValidate(new)
  THEN RecordAddPhone(RecordRemovePhone(rec, old), new)
  ELSE [exc |-> "ValueError", rec |-> rec]

\* Record.edit_phone: remove_phone(old), then add_phone(new).
RecordEditPhone(rec, old, new) ==
  RecordAddPhone(RecordRemovePhone(rec, old), new)

\* Record.add_birthday: the assignment happens only when Birthday() returned.
RecordAddBirthday(rec, text) ==
  IF Strptime(text) = Raised
  THEN [exc |-> "ValueError", rec |-> rec]
  ELSE [exc |-> "None", rec |-> [rec EXCEPT !.birthday = Strptime(text)]]

\* Record.__str__: name, the phones joined, the birthday clause when set.
RecordStr(rec) ==
  [name |-> rec.name, phones |-> rec.phones,
   birthday |-> IF rec.birthday # NoBirthday
                THEN <<Strftime(rec.birthday)>> ELSE <<>>]

(***************************************************************************)
(* AddressBook: a dict, kept as the sequence of its items in insertion     *)
(* order; an item is [key, rec].                                           *)
(***************************************************************************)
\* The position of key in the dict, 0 when absent.
IndexOf(data, key) ==
  IF \E i \in 1..Len(data) : data[i].key = key
  THEN CHOOSE i \in 1..Len(data) : data[i].key = key
  ELSE 0

\* self.data[key] = rec: overwrite in place, or append a new item.
DictSet(data, key, rec) ==
  IF IndexOf(data, key) # 0
  THEN [data EXCEPT ![IndexOf(data, key)] = [key |-> key, rec |-> rec]]
  ELSE Append(data, [key |-> key, rec |-> rec])

\* AddressBook.add_record.
AddRecord(data, rec) == DictSet(data, rec.name, rec)

\* AddressBook.delete.
Delete(data, name) ==
  IF IndexOf(data, name) # 0
  THEN SelectSeq(data, LAMBDA it : it.key # name)
  ELSE data

(***************************************************************************)
(* AddressBook.get_upcoming_birthdays.                                     *)
(***************************************************************************)
\* Lines 80-84: the birthday in today's year, or in the next year when that
\* is before today; Raised when either replace() raises.
BirthdayThisYear(birthday, today) ==
  LET first == ReplaceYear(birthday, today[1])
  IN IF first = Raised THEN Raised
     ELSE IF DateLess(first, today) THEN ReplaceYear(first, today[1] + 1)
     ELSE first

\* A variant that moves a Saturday birthday by one day only.
CongratulationDateShiftOne(bty) ==
  IF Weekday(bty) = Saturday THEN PlusDays(bty, 1)
  ELSE IF Weekday(bty) = Sunday THEN PlusDays(bty, 1)
  ELSE bty

\* Lines 86-93.
CongratulationDate(bty) ==
  IF Weekday(bty) = Saturday THEN PlusDays(bty, 2)
  ELSE IF Weekday(bty) = Sunday THEN PlusDays(bty, 1)
  ELSE bty

\* Line 95: (congratulation_date - today).days.
DaysUntil(cd, today) == ToOrdinal(cd) - ToOrdinal(today)

\* A variant of the window test that leaves out its last day.
InWindowStrict(days) == days < WindowDays

\* Line 97.
InWindow(days) == days <= WindowDays

\* Lines 98-103: birthdays_dict, kept as the sequence of its values in
\* insertion order.
GroupIndex(dict, cd) ==
  IF \E i \in 1..Len(dict) : dict[i].congratulation_date = cd
  THEN CHOOSE i \in 1..Len(dict) : dict[i].congratulation_date = cd
  ELSE 0

GroupAdd(dict, cd, name) ==
  IF GroupIndex(dict, cd) = 0
  THEN Append(dict, [congratulation_date |-> cd, users |-> <<name>>])
  ELSE [dict EXCEPT ![GroupIndex(dict, cd)].users = Append(@, name)]

\* Lines 77-103: the scan of self.data.values() from item i on.
RECURSIVE ScanRecords(_, _, _, _)
ScanRecords(data, i, today, dict) ==
  IF i > Len(data) THEN [exc |-> "None", dict |-> dict]
  ELSE IF data[i].rec.birthday = NoBirthday
  THEN ScanRecords(data, i + 1, today, dict)
  ELSE LET bty == BirthdayThisYear(data[i].rec.birthday, today)
       IN IF bty = Raised THEN [exc |-> "ValueError", dict |-> dict]
          ELSE LET cd == CongratulationDate(bty)
               IN IF InWindow(DaysUntil(cd, today))
                  THEN ScanRecords(data, i + 1, today,
                                   GroupAdd(dict, cd, data[i].rec.name))
                  ELSE ScanRecords(data, i + 1, today, dict)

\* Lines 106-110: the entries of one group.
GroupEntries(group, today) ==
  [k \in 1..Len(group.users) |->
     [name |-> group.users[k],
      congratulation_date |-> group.congratulation_date,
      days_until_birthday |-> DaysUntil(group.congratulation_date, today)]]

\* Lines 105-110: the groups' entries, group after group.
RECURSIVE FlattenGroups(_, _, _)
FlattenGroups(dict, i, today) ==
  IF i > Len(dict) THEN <<>>
  ELSE GroupEntries(dict[i], today) \o FlattenGroups(dict, i + 1, today)

\* The call: exc = "ValueError" when it raised (and then returned nothing),
\* else val is the returned list.
GetUpcomingBirthdays(data, today) ==
  LET scan == ScanRecords(data, 1, today, <<>>)
  IN IF scan.exc # "None" THEN [exc |-> scan.exc, val |-> <<>>]
     ELSE [exc |-> "None", val |-> FlattenGroups(scan.dict, 1, today)]

(***************************************************************************)
(* input_error and the command handlers.  A handler's return value is      *)
(* [msg, lines]: a fixed message, or the lines it renders.                 *)
(***************************************************************************)
MsgAdded == "Contact added."

MsgUpdated == "Contact updated."

MsgNotFound == "Contact not found."

MsgPhone == "Phone number must contain 10 digits."

MsgDate == "Invalid date format. Use YYYY.MM.DD"

MsgMissing == "Missing required arguments."

\* f"An unexpected error occurred: {e}"; e is here always the TypeError of a
\* call whose arguments do not fit the handler's parameters.
MsgUnexpected == "An unexpected error occurred: (TypeError message)"

MsgDayOutOfRange == "day is out of range for month"

MsgNoContacts == "No contacts found."

MsgBirthdayAdded == "Birthday added."

MsgNoUpcoming == "No upcoming birthdays."

Text(msg) == [msg |-> msg, lines |-> <<>>]

Lines(lines) == [msg |-> "", lines |-> lines]

\* input_error.inner: the handler's value when it returned, else the message
\* of the except clause that catches exc; emsg is str(e).
InputError(exc, emsg, value) ==
  IF exc = "None" THEN value
  ELSE IF exc = "KeyError" THEN Text(MsgNotFound)
  ELSE IF exc = "ValueError" THEN Text(emsg)
  ELSE IF exc = "IndexError" THEN Text(MsgMissing)
  ELSE Text(MsgUnexpected)

\* The record stored under name (find), when there is one.
Found(data, name) == data[IndexOf(data, name)].rec

\* A mutation of the record object found under name is seen through the dict.
Stored(data, name, rec) ==
  [data EXCEPT ![IndexOf(data, name)].rec = rec]

\* A variant of the loop that adds no phone at all when one of them is
\* rejected.
AddPhonesAtomic(rec, phones, i) ==
  IF \A k \in i..Len(phones) : PhoneValidate(phones[k])
  THEN [exc |-> "None",
        rec |-> [rec EXCEPT !.phones = @ \o SubSeq(phones, i, Len(phones))]]
  ELSE [exc |-> "ValueError", rec |-> rec]

\* Lines 144-145: add_phone for each phone from i on, until one raises.
RECURSIVE AddPhones(_, _, _)
AddPhones(rec, phones, i) ==
  IF i > Len(phones) THEN [exc |-> "None", rec |-> rec]
  ELSE LET r == RecordAddPhone(rec, phones[i])
       IN IF r.exc # "None" THEN r ELSE AddPhones(r.rec, phones, i + 1)

\* A variant of add_contact that stores a fresh record also when the name
\* is already in the book.
AddContactCallOverwrite(data, args) ==
  IF Len(args) < 1
  THEN [book |-> data, out |-> InputError("TypeError", "", Text(""))]
  ELSE LET name == args[1]
           isNew == IndexOf(data, name) = 0
           data1 == AddRecord(data, NewRecord(name))
           message == IF isNew THEN MsgAdded ELSE MsgUpdated
           r == AddPhones(Found(data1, name), Tail(args), 1)
       IN [book |-> Stored(data1, name, r.rec),
           out |-> InputError(r.exc, MsgPhone, Text(message))]

\* add_contact(address_book, name, *phones); args are the arguments after
\* address_book.  The result is the book afterwards and the returned value.
AddContactCall(data, args) ==
  IF Len(args) < 1
  THEN [book |-> data, out |-> InputError("TypeError", "", Text(""))]
  ELSE LET name == args[1]
           isNew == IndexOf(data, name) = 0
           data1 == IF isNew THEN AddRecord(data, NewRecord(name)) ELSE data
           message == IF isNew THEN MsgAdded ELSE MsgUpdated
           r == AddPhones(Found(data1, name), Tail(args), 1)
       IN [book |-> Stored(data1, name, r.rec),
           out |-> InputError(r.exc, MsgPhone, Text(message))]

\* change_contact(address_book, name, old_phone, new_phone).
ChangeContactCall(data, args) ==
  IF Len(args) # 3
  THEN [book |-> data, out |-> InputError("TypeError", "", Text(""))]
  ELSE IF IndexOf(data, args[1]) = 0
  THEN [book |-> data, out |-> InputError("KeyError", "", Text(""))]
  ELSE LET r == RecordEditPhone(Found(data, args[1]), args[2], args[3])
       IN [book |-> Stored(data, args[1], r.rec),
           out |-> InputError(r.exc, MsgPhone, Text(MsgUpdated))]

\* show_phone(address_book, name).
ShowPhoneCall(data, args) ==
  IF Len(args) # 1
  THEN [book |-> data, out |-> InputError("TypeError", "", Text(""))]
  ELSE IF IndexOf(data, args[1]) = 0
  THEN [book |-> data, out |-> InputError("KeyError", "", Text(""))]
  ELSE [book |-> data,
        out |-> InputError("None", "", Lines(<<RecordStr(Found(data, args[1]))>>))]

\* show_all(address_book).
ShowAllCall(data, args) ==
  IF Len(args) # 0
  THEN [book |-> data, out |-> InputError("TypeError", "", Text(""))]
  ELSE IF Len(data) # 0
  THEN [book |-> data,
        out |-> InputError("None", "",
                  Lines([i \in 1..Len(data) |-> RecordStr(data[i].rec)]))]
  ELSE [book |-> data, out |-> InputError("None", "", Text(MsgNoContacts))]

\* add_birthday(address_book, name, birthday).
AddBirthdayCall(data, args) ==
  IF Len(args) # 2
  THEN [book |-> data, out |-> InputError("TypeError", "", Text(""))]
  ELSE IF IndexOf(data, args[1]) = 0
  THEN [book |-> data, out |-> InputError("KeyError", "", Text(""))]
  ELSE LET r == RecordAddBirthday(Found(data, args[1]), args[2])
       IN [book |-> Stored(data, args[1], r.rec),
           out |-> InputError(r.exc, MsgDate, Text(MsgBirthdayAdded))]

\* show_birthday(address_book, name).
ShowBirthdayCall(data, args) ==
  IF Len(args) # 1
  THEN [book |-> data, out |-> InputError("TypeError", "", Text(""))]
  ELSE IF IndexOf(data, args[1]) # 0
          /\ Found(data, args[1]).birthday # NoBirthday
  THEN [book |-> data,
        out |-> InputError("None", "",
                  Lines(<<[name |-> args[1],
                           birthday |-> Strftime(Found(data, args[1]).birthday)]>>))]
  ELSE [book |-> data, out |-> InputError("KeyError", "", Text(""))]

\* birthdays(address_book), the clock reading today.
BirthdaysCall(data, args, today) ==
  IF Len(args) # 0
  THEN [book |-> data, out |-> InputError("TypeError", "", Text(""))]
  ELSE LET up == GetUpcomingBirthdays(data, today)
       IN [book |-> data,
           out |-> InputError(up.exc, MsgDayOutOfRange,
                     IF Len(up.val) # 0
                     THEN Lines([i \in 1..Len(up.val) |->
                            [name |-> up.val[i].name,
                             date |-> Strftime(up.val[i].congratulation_date)]])
                     ELSE Text(MsgNoUpcoming))]

(***************************************************************************)
(* The inputs the commands are given.                                      *)
(***************************************************************************)
Names == {"ann", "bob"}

P0 == [i \in 1..PhoneLen |-> "0"]

P1 == [i \in 1..PhoneLen |-> "1"]

\* Ten characters, all SUPERSCRIPT TWO.
PSup == [i \in 1..PhoneLen |-> SuperscriptTwo]

\* Nine digits.
PShort == [i \in 1..(PhoneLen - 1) |-> "1"]

\* Ten characters, the last one a letter.
PAlpha == [i \in 1..PhoneLen |-> IF i = PhoneLen THEN "a" ELSE "0"]

PhoneTexts == {P0, P1, PSup, PShort, PAlpha}

\* An add command passes no phone, one phone, or two phones of which each is
\* P0, P1 or PShort.
PhoneLists ==
  {<<>>} \cup {<<p>> : p \in PhoneTexts}
         \cup {<<p, q>> : p \in {P0, P1, PShort}, q \in {P0, P1, PShort}}

AddContactArgs == {<<>>} \cup {<<n>> \o ps : n \in Names, ps \in PhoneLists}

\* A change command names as old phone one a record can hold, held or not.
OldPhones == {P0, P1, PSup}

ChangeContactArgs ==
  {<<n>> : n \in Names}
    \cup {<<n, old, new>> : n \in Names, old \in OldPhones, new \in PhoneTexts}

NameArgs == {<<>>} \cup {<<n>> : n \in Names}

NoArgs == {<<>>, <<"ann">>}

DateText(sep, y, m, d) == [sep |-> sep, y |-> y, m |-> m, d |-> d, padded |-> TRUE]

\* Birthdays around the turn of the year and on February 29, as "2000.12.28";
\* "2001.02.29" (no calendar date), "2000-12-30" (wrong separator) and
\* "2000.1.1" (month and day written with one digit).
MonthDays ==
  {<<12, 28>>, <<12, 29>>, <<12, 30>>, <<12, 31>>, <<1, 1>>, <<1, 2>>,
   <<1, 3>>, <<1, 4>>, <<1, 5>>, <<1, 6>>, <<2, 29>>}

BirthdayTexts ==
  {DateText(".", 2000, md[1], md[2]) : md \in MonthDays}
    \cup {DateText(".", 2001, 2, 29), DateText("-", 2000, 12, 30),
          [DateText(".", 2000, 1, 1) EXCEPT !.padded = FALSE]}

AddBirthdayArgs ==
  {<<n>> : n \in Names} \cup {<<n, t>> : n \in Names, t \in BirthdayTexts}

\* As today: every day of the week from Monday 2024-12-23 to Sunday
\* 2024-12-29, Monday 2024-02-26 (a leap year) and Monday 2025-02-24.
Todays ==
  {<<2024, 12, d>> : d \in 23..29} \cup {<<2024, 2, 26>>, <<2025, 2, 24>>}

(***************************************************************************)
(* The state machine.  book is the AddressBook; last records the last      *)
(* call: the operation, the name it was given ("" when none), the value it *)
(* returned and, for birthdays, the clock it read and what                 *)
(* get_upcoming_birthdays returned to it.                                  *)
(***************************************************************************)
NoDate == <<>>

NotCalled == [exc |-> "NotCalled", val |-> <<>>]

RECURSIVE PhoneCount(_, _)
PhoneCount(data, i) ==
  IF i > Len(data) THEN 0
  ELSE Len(data[i].rec.phones) + PhoneCount(data, i + 1)

Bounded(data) == PhoneCount(data, 1) <= MaxPhones

NameOf(args) == IF Len(args) > 0 THEN args[1] ELSE ""

Init ==
  /\ book = <<>>
  /\ last = [op |-> "init", name |-> "", today |-> NoDate,
             out |-> Text(""), up |-> NotCalled]

\* The record of a call.
Called(op, args, today, out, up) ==
  [op |-> op, name |-> NameOf(args), today |-> today, out |-> out, up |-> up]

AddContact(args) ==
  LET r == AddContactCall(book, args)
  IN /\ Bounded(r.book)
     /\ book' = r.book
     /\ last' = Called("add_contact", args, NoDate, r.out, NotCalled)

ChangeContact(args) ==
  LET r == ChangeContactCall(book, args)
  IN /\ Bounded(r.book)
     /\ book' = r.book
     /\ last' = Called("change_contact", args, NoDate, r.out, NotCalled)

ShowPhone(args) ==
  LET r == ShowPhoneCall(book, args)
  IN /\ book' = r.book
     /\ last' = Called("show_phone", args, NoDate, r.out, NotCalled)

ShowAll(args) ==
  LET r == ShowAllCall(book, args)
  IN /\ book' = r.book
     /\ last' = Called("show_all", args, NoDate, r.out, NotCalled)

AddBirthday(args) ==
  LET r == AddBirthdayCall(book, args)
  IN /\ book' = r.book
     /\ last' = Called("add_birthday", args, NoDate, r.out, NotCalled)

ShowBirthday(args) ==
  LET r == ShowBirthdayCall(book, args)
  IN /\ book' = r.book
     /\ last' = Called("show_birthday", args, NoDate, r.out, NotCalled)

\* birthdays; up is what its call of get_upcoming_birthdays returned.
Birthdays(args, today) ==
  LET r == BirthdaysCall(book, args, today)
  IN /\ book' = r.book
     /\ last' = Called("birthdays", args, today, r.out,
                       IF Len(args) = 0 THEN GetUpcomingBirthdays(book, today)
                       ELSE NotCalled)

\* AddressBook.delete, called directly.
DeleteRecord(name) ==
  /\ book' = Delete(book, name)
  /\ last' = Called("delete", <<name>>, NoDate, Text(""), NotCalled)

\* Record.remove_phone on the record found under name, called directly.
RemovePhone(name, phone) ==
  /\ IndexOf(book, name) # 0
  /\ book' = Stored(book, name, RecordRemovePhone(Found(book, name), phone))
  /\ last' = Called("remove_phone", <<name>>, NoDate, Text(""), NotCalled)

\* The phone commands, with AddressBook.delete and Record.remove_phone.
Next ==
  \/ \E args \in AddContactArgs : AddContact(args)
  \/ \E args \in ChangeContactArgs : ChangeContact(args)
  \/ \E args \in NameArgs : ShowPhone(args)
  \/ \E args \in NoArgs : ShowAll(args)
  \/ \E name \in Names : DeleteRecord(name)
  \/ \E name \in Names, phone \in PhoneTexts : RemovePhone(name, phone)

Spec == Init /\ [][Next]_vars

\* The birthday commands, on contacts added without phones.
NextBirthdays ==
  \/ \E args \in NameArgs : AddContact(args)
  \/ \E args \in AddBirthdayArgs : AddBirthday(args)
  \/ \E args \in NameArgs : ShowBirthday(args)
  \/ \E args \in NoArgs, today \in Todays : Birthdays(args, today)
  \/ \E name \in Names : DeleteRecord(name)

SpecBirthdays == Init /\ [][NextBirthdays]_vars

(***************************************************************************)
(* What the properties below speak of.                                     *)
(***************************************************************************)
\* The last call was birthdays and it called get_upcoming_birthdays.
Queried == last.op = "birthdays" /\ last.up.exc # "NotCalled"

\* get_upcoming_birthdays returned a list to the last call.
Returned == last.op = "birthdays" /\ last.up.exc = "None"

HasEntry(val, name) == \E k \in 1..Len(val) : val[k].name = name

WithBirthday == {i \in 1..Len(book) : book[i].rec.birthday # NoBirthday}

\* The birthday's month and day exist in today's year and, when that day is
\* before today, in the next year too.
Projectable(birthday, today) ==
  /\ ValidDate(today[1], birthday[2], birthday[3])
  /\ DateLess(<<today[1], birthday[2], birthday[3]>>, today)
       => ValidDate(today[1] + 1, birthday[2], birthday[3])

\* The birthday projected onto today's year, or onto the next year when that
\* projection is strictly before today.
Projected(birthday, today) ==
  IF DateLess(<<today[1], birthday[2], birthday[3]>>, today)
  THEN <<today[1] + 1, birthday[2], birthday[3]>>
  ELSE <<today[1], birthday[2], birthday[3]>>

\* Days from today to the projected birthday.
DaysToProjected(birthday, today) ==
  ToOrdinal(Projected(birthday, today)) - ToOrdinal(today)

\* Days the weekend rule moves a date by.
WeekendShift(dt) ==
  IF Weekday(dt) = Saturday THEN 2 ELSE IF Weekday(dt) = Sunday THEN 1 ELSE 0

\* Days from today to the observed date.
DaysToObserved(birthday, today) ==
  DaysToProjected(birthday, today) + WeekendShift(Projected(birthday, today))

\* The birthday of the record an entry names.
BirthdayOf(name) == Found(book, name).birthday

(***************************************************************************)
(* C1.  For every directory, every today and every record with a birthday, *)
(* get_upcoming_birthdays returns an entry for the record if and only if   *)
(* 0 <= days_until <= 7, days_until being the days from today to the       *)
(* record's observed date; no entry has a negative days_until, and the     *)
(* reported days_until is observed date minus today.  (Stated for the      *)
(* records whose birthday can be projected.)                               *)
(***************************************************************************)
C1_EntryIffInWindow ==
  Queried =>
    /\ \A i \in WithBirthday :
         Projectable(book[i].rec.birthday, last.today) =>
           (HasEntry(last.up.val, book[i].rec.name)
              <=> DaysToObserved(book[i].rec.birthday, last.today) \in 0..WindowDays)
    /\ \A k \in 1..Len(last.up.val) :
         /\ last.up.val[k].days_until_birthday >= 0
         /\ last.up.val[k].days_until_birthday
              = DaysToObserved(BirthdayOf(last.up.val[k].name), last.today)
         /\ last.up.val[k].days_until_birthday
              = ToOrdinal(last.up.val[k].congratulation_date) - ToOrdinal(last.today)

\* The same statement for the calls that returned; it holds.
C1_EntryIffInWindowWhenReturned == Returned => C1_EntryIffInWindow

(***************************************************************************)
(* C2.  The congratulation date of every returned entry is never a         *)
(* Saturday or Sunday: it is the projected birthday plus 2 days when that  *)
(* is a Saturday, plus 1 day when it is a Sunday, and the projected        *)
(* birthday itself from Monday to Friday.                                  *)
(***************************************************************************)
C2_ObservedOffWeekend ==
  Returned =>
    \A k \in 1..Len(last.up.val) :
      LET e == last.up.val[k]
          proj == Projected(BirthdayOf(e.name), last.today)
      IN /\ Weekday(e.congratulation_date) \notin {Saturday, Sunday}
         /\ ToOrdinal(e.congratulation_date) = ToOrdinal(proj) + WeekendShift(proj)
         /\ WeekendShift(proj) = 0 => e.congratulation_date = proj

\* A returned entry whose projected birthday is a Saturday and one whose
\* projected birthday is a Sunday.
C2_Witness ==
  /\ Returned
  /\ \E k \in 1..Len(last.up.val) :
       Weekday(Projected(BirthdayOf(last.up.val[k].name), last.today)) = Saturday
  /\ \E k \in 1..Len(last.up.val) :
       Weekday(Projected(BirthdayOf(last.up.val[k].name), last.today)) = Sunday

(***************************************************************************)
(* C3.  The returned sequence is ordered by congratulation date ascending; *)
(* entries with the same date appear in the order in which their records   *)
(* are met while scanning the directory.                                   *)
(***************************************************************************)
C3_AscendingByDate ==
  Returned =>
    \A i, j \in 1..Len(last.up.val) :
      i < j =>
        /\ ~DateLess(last.up.val[j].congratulation_date,
                     last.up.val[i].congratulation_date)
        /\ last.up.val[i].congratulation_date = last.up.val[j].congratulation_date
             => IndexOf(book, last.up.val[i].name) < IndexOf(book, last.up.val[j].name)

(***************************************************************************)
(* C4.  get_upcoming_birthdays is total: for every directory and every     *)
(* today it returns a sequence and never fails, also with a February 29    *)
(* birthday and a projection year that is no leap year.                    *)
(***************************************************************************)
C4_UpcomingTotal == Queried => last.up.exc = "None"

OneRecordPerName ==
  \A i, j \in 1..Len(book) :
    /\ book[i].key = book[i].rec.name
    /\ book[i].key = book[j].key => i = j

ValidPhoneLists ==
  {ps \in PhoneLists : \A k \in 1..Len(ps) : PhoneValidate(ps[k])}

AddContactAddsOrUpdates ==
  last'.op = "add_contact" =>
  \A args \in {<<last'.name>> \o ps : ps \in ValidPhoneLists} :
    AddContact(args)
    => IF \E i \in 1..Len(book) : book[i].key = args[1]
       THEN /\ last'.out = Text(MsgUpdated)
            /\ Len(book') = Len(book)
            /\ Found(book', args[1]).phones
                 = Found(book, args[1]).phones \o Tail(args)
       ELSE /\ last'.out = Text(MsgAdded)
            /\ Len(book') = Len(book) + 1
            /\ Cardinality({i \in 1..Len(book') : book'[i].key = args[1]}) = 1
            /\ Found(book', args[1]).phones = Tail(args)

C6_OneRecordPerName == []OneRecordPerName /\ [][AddContactAddsOrUpdates]_vars

\* add_contact has just updated a record that now holds two phones beside a
\* second record.
C6_Witness ==
  /\ last.op = "add_contact"
  /\ last.out = Text(MsgUpdated)
  /\ Len(book) = 2
  /\ Found(book, last.name).phones = <<P0, P1>>

(***************************************************************************)
(* C7.  edit_phone(old, new) removes every stored phone equal to old,      *)
(* keeping the other phones in their order, then validates new: a valid    *)
(* new is appended last; an invalid new fails with the invalid-phone       *)
(* error and leaves the record with old removed and new not added.         *)
(***************************************************************************)
EditPhoneRemovesThenAdds ==
  (/\ last'.op = "change_contact"
   /\ \E i \in 1..Len(book) : book[i].key = last'.name) =>
  \A args \in {<<last'.name, old, new>> : old \in OldPhones, new \in PhoneTexts} :
    ChangeContact(args)
    => LET kept == SelectSeq(Found(book, args[1]).phones, LAMBDA p : p # args[2])
       IN IF PhoneValidate(args[3])
          THEN /\ Found(book', args[1]).phones = Append(kept, args[3])
               /\ last'.out = Text(MsgUpdated)
          ELSE /\ Found(book', args[1]).phones = kept
               /\ last'.out = Text(MsgPhone)

C7_EditPhoneRemovesThenAdds == [][EditPhoneRemovesThenAdds]_vars

\* change_contact has just failed on an invalid new phone and the only
\* record holds P1 alone: of <<P0, P1>> the old phone P0 is removed and the
\* new phone is not added.
C7_Witness ==
  /\ last.op = "change_contact"
  /\ last.out = Text(MsgPhone)
  /\ Len(book) = 1
  /\ Found(book, last.name).phones = <<P1>>

(***************************************************************************)
(* C8.  add_phone accepts a text exactly when it is 10 characters long and *)
(* every character is a decimal digit; so every stored phone is a string   *)
(* of 10 decimal digits.                                                   *)
(***************************************************************************)
TenDecimalDigits(text) ==
  Len(text) = 10 /\ \A k \in 1..Len(text) : text[k] \in AsciiDigits

C8_StoredPhonesAreTenDigits ==
  \A i \in 1..Len(book) :
    \A k \in 1..Len(book[i].rec.phones) : TenDecimalDigits(book[i].rec.phones[k])

(***************************************************************************)
(* C9.  Every command handler returns a display string, and each error     *)
(* kind has its own message; a call with too few positional arguments      *)
(* returns "Missing required arguments.".                                  *)
(***************************************************************************)
NamedHandlers == {"add_contact", "show_phone", "show_birthday"}

C9_MissingArgumentsMessage ==
  (last.op \in NamedHandlers /\ last.name = "") => last.out = Text(MsgMissing)

(***************************************************************************)
(* C10.  When the phones given to add_contact contain an invalid one, it   *)
(* returns the invalid-phone message, and afterwards the directory holds a *)
(* record for the name (created if the name was new) whose phones are its  *)
(* previous phones followed by exactly the given phones that precede the   *)
(* first invalid one.                                                      *)
(***************************************************************************)
FirstInvalid(phones) ==
  CHOOSE k \in 1..Len(phones) :
    /\ ~PhoneValidate(phones[k])
    /\ \A j \in 1..(k - 1) : PhoneValidate(phones[j])

AddContactKeepsPrefix ==
  last'.op = "add_contact" =>
  \A args \in {<<last'.name>> \o ps : ps \in PhoneLists \ ValidPhoneLists} :
    AddContact(args)
    => LET isNew == ~\E i \in 1..Len(book) : book[i].key = args[1]
           before == IF isNew THEN <<>> ELSE Found(book, args[1]).phones
           given == Tail(args)
       IN /\ last'.out = Text(MsgPhone)
          /\ Len(book') = Len(book) + (IF isNew THEN 1 ELSE 0)
          /\ Cardinality({i \in 1..Len(book') : book'[i].key = args[1]}) = 1
          /\ Found(book', args[1]).phones
               = before \o SubSeq(given, 1, FirstInvalid(given) - 1)

C10_AddContactKeepsPrefix == [][AddContactKeepsPrefix]_vars

\* add_contact has just returned the invalid-phone message and its record
\* holds a phone.
C10_Witness ==
  /\ last.op = "add_contact"
  /\ last.out = Text(MsgPhone)
  /\ Len(book) = 1
  /\ Found(book, last.name).phones = <<P0>>

====
